---- MODULE Spec2Model ----
(***************************************************************************)
(* In-memory document store of the Mergington High School API              *)
(* (src/backend/database.py): the InMemoryCollection class, the two        *)
(* module-level collections and init_database.                             *)
(*                                                                         *)
(* Python values are modelled as follows.                                  *)
(*   dict (insertion ordered, the data_store and initial_activities):      *)
(*        a sequence of [key, value] entries, see dict_set.                *)
(*   dict used as a record (a document, a query, an update):               *)
(*        a function from field names to values.                           *)
(*   list: a sequence.   str: a string.   None: the value None below.      *)
(*   a query condition on a recognised path, whose Python type the code    *)
(*        inspects (isinstance(condition, dict)): Lit(v) for a literal,    *)
(*        Ops(f) for an operator dict f.                                   *)
(***************************************************************************)
EXTENDS Integers, Sequences, FiniteSets, TLC

VARIABLES activities_db, teachers_db, call, result, pre

vars == <<activities_db, teachers_db, call, result, pre>>

\* ------------------------------------------------------------------ bounds

\* $push is not applied to a list that already holds MaxLen elements.
MaxLen == 2

\* ------------------------------------------------------- Python builtins

None == "NoneType"

EmptyDict == [x \in {} |-> x]

Range(s) == {s[i] : i \in DOMAIN s}

Lit(v) == [dict |-> FALSE, val |-> v]

Ops(f) == [dict |-> TRUE, val |-> f]

\* d.get(k, default) on a dict used as a record
dict_get(d, k, default) == IF k \in DOMAIN d THEN d[k] ELSE default

\* k in d, d[k], d[k] = v, d.keys() and len(d) on an insertion-ordered dict
dict_has(d, k) == \E i \in DOMAIN d : d[i].key = k

dict_index(d, k) == CHOOSE i \in DOMAIN d : d[i].key = k

dict_at(d, k) == d[dict_index(d, k)].value

dict_set_moves_to_end(d, k, v) ==
  Append(SelectSeq(d, LAMBDA e : e.key # k), [key |-> k, value |-> v])

dict_set(d, k, v) ==
  IF dict_has(d, k)
  THEN [d EXCEPT ![dict_index(d, k)] = [key |-> k, value |-> v]]
  ELSE Append(d, [key |-> k, value |-> v])

dict_keys(d) == [i \in DOMAIN d |-> d[i].key]

\* The total order of Python's str comparison (code point order), on the
\* strings the model compares: times "HH:MM", the empty string, day names.
StrOrder ==
  << "", "06:30", "07:00", "07:15", "07:45", "08:00", "10:00", "13:00",
     "14:00", "15:00", "15:15", "15:30", "16:00", "16:45", "17:00", "17:30",
     "19:00", "20:00", "Friday", "Monday", "Saturday", "Sunday", "Thursday",
     "Tuesday", "Wednesday" >>

StrRank(s) == CHOOSE i \in DOMAIN StrOrder : StrOrder[i] = s

str_lt(a, b) == StrRank(a) < StrRank(b)

\* sorted(S) of a set of strings
RECURSIVE sorted(_)
sorted(S) ==
  IF S = {} THEN <<>>
  ELSE LET m == CHOOSE x \in S : \A y \in S : ~str_lt(y, x)
       IN  <<m>> \o sorted(S \ {m})

\* a list.remove that drops the last occurrence instead of the first
list_remove_last(s, v) ==
  LET i == CHOOSE j \in DOMAIN s : s[j] = v /\ \A k \in DOMAIN s : k > j => s[k] # v
  IN  SubSeq(s, 1, i - 1) \o SubSeq(s, i + 1, Len(s))

\* list.remove(v): drops the first occurrence of v (v is in the list)
list_remove(s, v) ==
  LET i == CHOOSE j \in DOMAIN s : s[j] = v /\ \A k \in 1..(j - 1) : s[k] # v
  IN  SubSeq(s, 1, i - 1) \o SubSeq(s, i + 1, Len(s))

\* ---------------------------------------------------- InMemoryCollection

\* {"_id": key, **value}
with_id(key, value) == value @@ ("_id" :> key)

\* "$op" in condition, for an operator dict (a literal str holds no "$op")
has_op(condition, op) == condition.dict /\ op \in DOMAIN condition.val

days_clause(doc, condition) ==
  IF has_op(condition, "$in")
  THEN LET doc_days == dict_get(dict_get(doc, "schedule_details", EmptyDict), "days", <<>>)
       IN  \E i \in DOMAIN condition.val["$in"] : condition.val["$in"][i] \in Range(doc_days)
  ELSE TRUE

start_time_clause(doc, condition) ==
  IF has_op(condition, "$gte")
  THEN LET doc_time == dict_get(dict_get(doc, "schedule_details", EmptyDict), "start_time", "")
       IN  ~str_lt(doc_time, condition.val["$gte"])
  ELSE TRUE

end_time_clause(doc, condition) ==
  IF has_op(condition, "$lte")
  THEN LET doc_time == dict_get(dict_get(doc, "schedule_details", EmptyDict), "end_time", "")
       IN  ~str_lt(condition.val["$lte"], doc_time)
  ELSE TRUE

difficulty_clause_key_only(doc, condition) ==
  IF has_op(condition, "$exists")
  THEN condition.val["$exists"] = ("difficulty_level" \in DOMAIN doc)
  ELSE ~condition.dict /\ dict_get(doc, "difficulty_level", None) = condition.val

difficulty_clause(doc, condition) ==
  IF has_op(condition, "$exists")
  THEN LET field_exists == "difficulty_level" \in DOMAIN doc /\ doc["difficulty_level"] # None
       IN  condition.val["$exists"] = field_exists
  ELSE ~condition.dict /\ dict_get(doc, "difficulty_level", None) = condition.val

matches_query_equality(doc, query) ==
  \A key \in DOMAIN query :
    CASE key = "schedule_details.days"       -> days_clause(doc, query[key])
      [] key = "schedule_details.start_time" -> start_time_clause(doc, query[key])
      [] key = "schedule_details.end_time"   -> end_time_clause(doc, query[key])
      [] key = "difficulty_level"            -> difficulty_clause(doc, query[key])
      [] OTHER                               -> key \in DOMAIN doc /\ doc[key] = query[key]

matches_query(doc, query) ==
  \A key \in DOMAIN query :
    CASE key = "schedule_details.days"       -> days_clause(doc, query[key])
      [] key = "schedule_details.start_time" -> start_time_clause(doc, query[key])
      [] key = "schedule_details.end_time"   -> end_time_clause(doc, query[key])
      [] key = "difficulty_level"            -> difficulty_clause(doc, query[key])
      [] OTHER                               -> TRUE

all_documents(data_store) ==
  [i \in DOMAIN data_store |-> with_id(data_store[i].key, data_store[i].value)]

\* find(query=None): args is the tuple of positional arguments, <<>> when the
\* default None applies.
find(data_store, args) ==
  IF args = <<>> \/ args[1] = EmptyDict
  THEN all_documents(data_store)
  ELSE SelectSeq(all_documents(data_store), LAMBDA doc : matches_query(doc, args[1]))

NotFound == [found |-> FALSE]

Found(doc) == [found |-> TRUE, doc |-> doc]

find_one_first_match(data_store, query) ==
  IF "_id" \in DOMAIN query
  THEN LET key == query["_id"]
       IN  IF dict_has(data_store, key)
           THEN Found(with_id(key, dict_at(data_store, key)))
           ELSE NotFound
  ELSE LET matched == find(data_store, <<query>>)
       IN  IF matched # <<>> THEN Found(Head(matched)) ELSE NotFound

find_one(data_store, query) ==
  IF "_id" \in DOMAIN query
  THEN LET key == query["_id"]
       IN  IF dict_has(data_store, key)
           THEN Found(with_id(key, dict_at(data_store, key)))
           ELSE NotFound
  ELSE NotFound

insert_one(data_store, document) ==
  LET doc_id   == document["_id"]
      doc_data == [k \in DOMAIN document \ {"_id"} |-> document[k]]
  IN  [store |-> dict_set(data_store, doc_id, doc_data), ret |-> TRUE]

apply_push_add_to_set(record, push) ==
  [field \in DOMAIN record \cup DOMAIN push |->
     IF field \in DOMAIN push
     THEN LET old == IF field \in DOMAIN record THEN record[field] ELSE <<>>
          IN  IF push[field] \in Range(old) THEN old ELSE Append(old, push[field])
     ELSE record[field]]

apply_push(record, push) ==
  [field \in DOMAIN record \cup DOMAIN push |->
     IF field \in DOMAIN push
     THEN Append(IF field \in DOMAIN record THEN record[field] ELSE <<>>, push[field])
     ELSE record[field]]

apply_pull(record, pull) ==
  [field \in DOMAIN record |->
     IF field \in DOMAIN pull /\ pull[field] \in Range(record[field])
     THEN list_remove(record[field], pull[field])
     ELSE record[field]]

update_one_upsert(data_store, query, update) ==
  IF "_id" \in DOMAIN query
  THEN LET key    == query["_id"]
           old    == IF dict_has(data_store, key) THEN dict_at(data_store, key) ELSE EmptyDict
           pushed == IF "$push" \in DOMAIN update THEN apply_push(old, update["$push"]) ELSE old
           pulled == IF "$pull" \in DOMAIN update THEN apply_pull(pushed, update["$pull"]) ELSE pushed
       IN  [store |-> dict_set(data_store, key, pulled), ret |-> [modified_count |-> 1]]
  ELSE [store |-> data_store, ret |-> [modified_count |-> 0]]

update_one(data_store, query, update) ==
  IF "_id" \in DOMAIN query /\ dict_has(data_store, query["_id"])
  THEN LET key    == query["_id"]
           pushed == IF "$push" \in DOMAIN update
                     THEN apply_push(dict_at(data_store, key), update["$push"])
                     ELSE dict_at(data_store, key)
           pulled == IF "$pull" \in DOMAIN update
                     THEN apply_pull(pushed, update["$pull"])
                     ELSE pushed
       IN  [store |-> dict_set(data_store, key, pulled), ret |-> [modified_count |-> 1]]
  ELSE [store |-> data_store, ret |-> [modified_count |-> 0]]

count_documents(data_store, query) == Len(data_store)

unique_days(data_store) ==
  LET all_days ==
        UNION { Range(data_store[i].value["schedule_details"]["days"]) :
                i \in { j \in DOMAIN data_store :
                          /\ "schedule_details" \in DOMAIN data_store[j].value
                          /\ "days" \in DOMAIN data_store[j].value["schedule_details"] } }
      days == sorted(all_days)
  IN  [i \in DOMAIN days |-> [_id |-> days[i]]]

aggregate_any_stage(data_store, pipeline) ==
  IF \E i \in DOMAIN pipeline :
       dict_get(pipeline[i], "$unwind", None) = "$schedule_details.days"
  THEN unique_days(data_store)
  ELSE <<>>

aggregate(data_store, pipeline) ==
  IF pipeline # <<>> /\ dict_get(pipeline[1], "$unwind", None) = "$schedule_details.days"
  THEN unique_days(data_store)
  ELSE <<>>

\* ------------------------------------------------------------- module level

\* hash_password: Argon2's encoded hash, an opaque string to this module
hash_password(password) == "$argon2id$" \o password

initial_activities ==
  <<
     [key |-> "Chess Club",
      value |->
        [description |-> "Learn strategies and compete in chess tournaments",
         schedule |-> "Mondays and Fridays, 3:15 PM - 4:45 PM",
         schedule_details |->
           [days |-> <<"Monday", "Friday">>, start_time |-> "15:15", end_time |-> "16:45"],
         max_participants |-> 12,
         participants |-> <<"michael@mergington.edu", "daniel@mergington.edu">>,
         difficulty_level |-> "Beginner"]],
     [key |-> "Programming Class",
      value |->
        [description |-> "Learn programming fundamentals and build software projects",
         schedule |-> "Tuesdays and Thursdays, 7:00 AM - 8:00 AM",
         schedule_details |->
           [days |-> <<"Tuesday", "Thursday">>, start_time |-> "07:00", end_time |-> "08:00"],
         max_participants |-> 20,
         participants |-> <<"emma@mergington.edu", "sophia@mergington.edu">>,
         difficulty_level |-> "Intermediate"]],
     [key |-> "Morning Fitness",
      value |->
        [description |-> "Early morning physical training and exercises",
         schedule |-> "Mondays, Wednesdays, Fridays, 6:30 AM - 7:45 AM",
         schedule_details |->
           [days |-> <<"Monday", "Wednesday", "Friday">>, start_time |-> "06:30", end_time |-> "07:45"],
         max_participants |-> 30,
         participants |-> <<"john@mergington.edu", "olivia@mergington.edu">>]],
     [key |-> "Soccer Team",
      value |->
        [description |-> "Join the school soccer team and compete in matches",
         schedule |-> "Tuesdays and Thursdays, 3:30 PM - 5:30 PM",
         schedule_details |->
           [days |-> <<"Tuesday", "Thursday">>, start_time |-> "15:30", end_time |-> "17:30"],
         max_participants |-> 22,
         participants |-> <<"liam@mergington.edu", "noah@mergington.edu">>]],
     [key |-> "Basketball Team",
      value |->
        [description |-> "Practice and compete in basketball tournaments",
         schedule |-> "Wednesdays and Fridays, 3:15 PM - 5:00 PM",
         schedule_details |->
           [days |-> <<"Wednesday", "Friday">>, start_time |-> "15:15", end_time |-> "17:00"],
         max_participants |-> 15,
         participants |-> <<"ava@mergington.edu", "mia@mergington.edu">>]],
     [key |-> "Art Club",
      value |->
        [description |-> "Explore various art techniques and create masterpieces",
         schedule |-> "Thursdays, 3:15 PM - 5:00 PM",
         schedule_details |->
           [days |-> <<"Thursday">>, start_time |-> "15:15", end_time |-> "17:00"],
         max_participants |-> 15,
         participants |-> <<"amelia@mergington.edu", "harper@mergington.edu">>,
         difficulty_level |-> "Beginner"]],
     [key |-> "Drama Club",
      value |->
        [description |-> "Act, direct, and produce plays and performances",
         schedule |-> "Mondays and Wednesdays, 3:30 PM - 5:30 PM",
         schedule_details |->
           [days |-> <<"Monday", "Wednesday">>, start_time |-> "15:30", end_time |-> "17:30"],
         max_participants |-> 20,
         participants |-> <<"ella@mergington.edu", "scarlett@mergington.edu">>]],
     [key |-> "Math Club",
      value |->
        [description |-> "Solve challenging problems and prepare for math competitions",
         schedule |-> "Tuesdays, 7:15 AM - 8:00 AM",
         schedule_details |->
           [days |-> <<"Tuesday">>, start_time |-> "07:15", end_time |-> "08:00"],
         max_participants |-> 10,
         participants |-> <<"james@mergington.edu", "benjamin@mergington.edu">>,
         difficulty_level |-> "Advanced"]],
     [key |-> "Debate Team",
      value |->
        [description |-> "Develop public speaking and argumentation skills",
         schedule |-> "Fridays, 3:30 PM - 5:30 PM",
         schedule_details |->
           [days |-> <<"Friday">>, start_time |-> "15:30", end_time |-> "17:30"],
         max_participants |-> 12,
         participants |-> <<"charlotte@mergington.edu", "amelia@mergington.edu">>,
         difficulty_level |-> "Intermediate"]],
     [key |-> "Weekend Robotics Workshop",
      value |->
        [description |-> "Build and program robots in our state-of-the-art workshop",
         schedule |-> "Saturdays, 10:00 AM - 2:00 PM",
         schedule_details |->
           [days |-> <<"Saturday">>, start_time |-> "10:00", end_time |-> "14:00"],
         max_participants |-> 15,
         participants |-> <<"ethan@mergington.edu", "oliver@mergington.edu">>,
         difficulty_level |-> "Advanced"]],
     [key |-> "Science Olympiad",
      value |->
        [description |-> "Weekend science competition preparation for regional and state events",
         schedule |-> "Saturdays, 1:00 PM - 4:00 PM",
         schedule_details |->
           [days |-> <<"Saturday">>, start_time |-> "13:00", end_time |-> "16:00"],
         max_participants |-> 18,
         participants |-> <<"isabella@mergington.edu", "lucas@mergington.edu">>]],
     [key |-> "Sunday Chess Tournament",
      value |->
        [description |-> "Weekly tournament for serious chess players with rankings",
         schedule |-> "Sundays, 2:00 PM - 5:00 PM",
         schedule_details |->
           [days |-> <<"Sunday">>, start_time |-> "14:00", end_time |-> "17:00"],
         max_participants |-> 16,
         participants |-> <<"william@mergington.edu", "jacob@mergington.edu">>,
         difficulty_level |-> "Advanced"]],
     [key |-> "Manga Maniacs",
      value |->
        [description |-> "Dive into epic adventures, discover incredible powers, and connect with unforgettable heroes! Join fellow manga enthusiasts as we explore everything from shonen battles to slice-of-life stories. Whether you're rooting for Naruto, One Piece, or love discovering hidden gems, this is your otaku home base!",
         schedule |-> "Tuesdays, 7:00 PM - 8:00 PM",
         schedule_details |->
           [days |-> <<"Tuesday">>, start_time |-> "19:00", end_time |-> "20:00"],
         max_participants |-> 15,
         participants |-> <<>>]]
  >>

initial_teachers ==
  << [username |-> "mrodriguez", display_name |-> "Ms. Rodriguez",
      password |-> hash_password("art123"), role |-> "teacher"],
     [username |-> "mchen", display_name |-> "Mr. Chen",
      password |-> hash_password("chess456"), role |-> "teacher"],
     [username |-> "principal", display_name |-> "Principal Martinez",
      password |-> hash_password("admin789"), role |-> "admin"] >>

\* for d in docs: collection.insert_one(d)
RECURSIVE insert_each(_, _)
insert_each(data_store, docs) ==
  IF docs = <<>> THEN data_store
  ELSE insert_each(insert_one(data_store, Head(docs)).store, Tail(docs))

seed_activities ==
  [i \in DOMAIN initial_activities |->
     with_id(initial_activities[i].key, initial_activities[i].value)]

seed_teachers ==
  [i \in DOMAIN initial_teachers |->
     with_id(initial_teachers[i]["username"], initial_teachers[i])]

seed_always(data_store, docs) == insert_each(data_store, docs)

seed_if_empty(data_store, docs) ==
  IF count_documents(data_store, EmptyDict) = 0
  THEN insert_each(data_store, docs)
  ELSE data_store

init_database(activities, teachers) ==
  [activities |-> seed_if_empty(activities, seed_activities),
   teachers   |-> seed_if_empty(teachers, seed_teachers)]

\* ------------------------------------------------------------------ inputs

Collections == {"activities", "teachers"}

\* documents handed to insert_one
ActivityDocs ==
  << [_id |-> "Chess Club",
      schedule_details |->
        [days |-> <<"Monday", "Friday">>, start_time |-> "15:15", end_time |-> "16:45"],
      max_participants |-> 12,
      participants |-> <<"a@x.edu", "b@x.edu", "a@x.edu">>,
      difficulty_level |-> "Beginner"],
     [_id |-> "Chess Club", max_participants |-> 2],
     [_id |-> "Yoga Club",
      schedule_details |-> [days |-> <<"Friday">>],
      participants |-> <<>>,
      difficulty_level |-> None],
     [_id |-> "Yoga Club",
      schedule_details |-> [start_time |-> "07:00", end_time |-> "08:00"],
      difficulty_level |-> "Advanced"] >>

TeacherDocs ==
  << [_id |-> "mchen", username |-> "mchen", display_name |-> "M. Chen",
      password |-> hash_password("go789"), role |-> "admin"] >>

InsertDocs(c) == IF c = "activities" THEN ActivityDocs ELSE TeacherDocs

DaysIn(L)   == "schedule_details.days" :> Ops("$in" :> L)

StartGte(t) == "schedule_details.start_time" :> Ops("$gte" :> t)

EndLte(t)   == "schedule_details.end_time" :> Ops("$lte" :> t)

Exists(b)   == "difficulty_level" :> Ops("$exists" :> b)

Level(v)    == "difficulty_level" :> Lit(v)

\* positional arguments handed to find: <<>> is find(), <<q>> is find(q)
ActivityFindArgs ==
  << <<>>,
     <<EmptyDict>>,
     <<DaysIn(<<>>)>>,
     <<DaysIn(<<"Monday">>)>>,
     <<DaysIn(<<"Tuesday", "Friday">>)>>,
     <<Exists(TRUE)>>,
     <<Exists(FALSE)>>,
     <<Level("Beginner")>>,
     <<Level(None)>>,
     <<"difficulty_level" :> Ops("$in" :> <<"Beginner">>)>>,
     <<"schedule_details.days" :> Ops("$exists" :> TRUE)>>,
     <<StartGte("15:00")>>,
     <<StartGte("")>>,
     <<EndLte("17:00")>>,
     <<EndLte("")>>,
     <<"_id" :> "Chess Club">>,
     <<"max_participants" :> 12>>,
     <<DaysIn(<<"Monday">>) @@ StartGte("15:00")>>,
     <<StartGte("15:00") @@ EndLte("17:00")>>,
     <<DaysIn(<<"Tuesday", "Friday">>) @@ Exists(TRUE)>>,
     <<Level("Beginner") @@ EndLte("17:00")>>,
     <<DaysIn(<<"Monday">>) @@ StartGte("15:00") @@ EndLte("17:00")>>,
     <<("_id" :> "Chess Club") @@ Exists(FALSE)>>,
     <<("max_participants" :> 12) @@ DaysIn(<<"Monday">>)>> >>

TeacherFindArgs == << <<>>, <<"role" :> "admin">> >>

FindArgs(c) == IF c = "activities" THEN ActivityFindArgs ELSE TeacherFindArgs

ActivityFindOneQueries ==
  << "_id" :> "Chess Club",
     "_id" :> "Yoga Club",
     ("_id" :> "Yoga Club") @@ Level("Beginner"),
     EmptyDict,
     Exists(FALSE),
     "max_participants" :> 12 >>

TeacherFindOneQueries == << "_id" :> "mchen", "username" :> "mchen" >>

FindOneQueries(c) ==
  IF c = "activities" THEN ActivityFindOneQueries ELSE TeacherFindOneQueries

ActivityUpdateQueries == << "_id" :> "Chess Club", "max_participants" :> 12 >>

TeacherUpdateQueries == << "_id" :> "mchen" >>

UpdateQueries(c) ==
  IF c = "activities" THEN ActivityUpdateQueries ELSE TeacherUpdateQueries

Push(v) == "$push" :> ("participants" :> v)

Pull(v) == "$pull" :> ("participants" :> v)

ActivityUpdates ==
  << Push("a@x.edu"), Push("b@x.edu"), Pull("a@x.edu"), Pull("b@x.edu"),
     Push("a@x.edu") @@ Pull("a@x.edu"), EmptyDict >>

TeacherUpdates == << Pull("a@x.edu") >>

Updates(c) == IF c = "activities" THEN ActivityUpdates ELSE TeacherUpdates

Pipelines ==
  << <<>>,
     << "$unwind" :> "$schedule_details.days" >>,
     << "$unwind" :> "$schedule_details.days", "$sort" :> "_id" >>,
     << "$unwind" :> "$participants" >>,
     << "$sort" :> "_id", "$unwind" :> "$schedule_details.days" >> >>

\* ------------------------------------------------------------------- state

Store(c) == IF c = "activities" THEN activities_db ELSE teachers_db

Snapshot == [activities |-> activities_db, teachers |-> teachers_db]

Write(c, data_store) ==
  /\ activities_db' = IF c = "activities" THEN data_store ELSE activities_db
  /\ teachers_db'   = IF c = "teachers" THEN data_store ELSE teachers_db

Init ==
  /\ activities_db = <<>>
  /\ teachers_db = <<>>
  /\ call = [op |-> "start"]
  /\ result = None
  /\ pre = [activities |-> <<>>, teachers |-> <<>>]

\* the list a $push appends to holds fewer than MaxLen elements
PushBounded(record, update) ==
  "$push" \in DOMAIN update =>
    \A field \in DOMAIN update["$push"] :
      Len(dict_get(record, field, <<>>)) < MaxLen

Find(c) ==
  \E i \in DOMAIN FindArgs(c) :
    /\ call' = [op |-> "find", coll |-> c, args |-> FindArgs(c)[i]]
    /\ result' = find(Store(c), FindArgs(c)[i])
    /\ pre' = Snapshot
    /\ UNCHANGED <<activities_db, teachers_db>>

FindOne(c) ==
  \E i \in DOMAIN FindOneQueries(c) :
    /\ call' = [op |-> "find_one", coll |-> c, query |-> FindOneQueries(c)[i]]
    /\ result' = find_one(Store(c), FindOneQueries(c)[i])
    /\ pre' = Snapshot
    /\ UNCHANGED <<activities_db, teachers_db>>

InsertOne(c) ==
  \E i \in DOMAIN InsertDocs(c) :
    LET r == insert_one(Store(c), InsertDocs(c)[i])
    IN  /\ call' = [op |-> "insert_one", coll |-> c, document |-> InsertDocs(c)[i]]
        /\ result' = r.ret
        /\ pre' = Snapshot
        /\ Write(c, r.store)

UpdateOne(c) ==
  \E i \in DOMAIN UpdateQueries(c), j \in DOMAIN Updates(c) :
    LET query  == UpdateQueries(c)[i]
        update == Updates(c)[j]
        r      == update_one(Store(c), query, update)
    IN  /\ ("_id" \in DOMAIN query /\ dict_has(Store(c), query["_id"]))
              => PushBounded(dict_at(Store(c), query["_id"]), update)
        /\ call' = [op |-> "update_one", coll |-> c, query |-> query, update |-> update]
        /\ result' = r.ret
        /\ pre' = Snapshot
        /\ Write(c, r.store)

CountDocuments(c) ==
  \E q \in {EmptyDict, Exists(TRUE)} :
    /\ call' = [op |-> "count_documents", coll |-> c, query |-> q]
    /\ result' = count_documents(Store(c), q)
    /\ pre' = Snapshot
    /\ UNCHANGED <<activities_db, teachers_db>>

Aggregate(c) ==
  \E i \in DOMAIN Pipelines :
    /\ call' = [op |-> "aggregate", coll |-> c, pipeline |-> Pipelines[i]]
    /\ result' = aggregate(Store(c), Pipelines[i])
    /\ pre' = Snapshot
    /\ UNCHANGED <<activities_db, teachers_db>>

\* call.after records the operation that ran just before this init_database
InitDatabase ==
  LET r == init_database(activities_db, teachers_db)
  IN  /\ call' = [op |-> "init_database", after |-> call.op]
      /\ result' = None
      /\ pre' = Snapshot
      /\ activities_db' = r.activities
      /\ teachers_db' = r.teachers

Next ==
  \/ \E c \in Collections : Find(c)
  \/ \E c \in Collections : FindOne(c)
  \/ \E c \in Collections : InsertOne(c)
  \/ \E c \in Collections : UpdateOne(c)
  \/ \E c \in Collections : CountDocuments(c)
  \/ Aggregate("activities")
  \/ InitDatabase

Spec == Init /\ [][Next]_vars

\* ------------------------------------------------------------- properties

\* The collection the last call was made on, before and after the call.
Before == pre[call.coll]

After == Store(call.coll)

KeysOf(d) == {d[i].key : i \in DOMAIN d}

\* The document a record is returned as: its fields, and its key under _id.
Tagged(entry, doc) ==
  /\ DOMAIN doc = DOMAIN entry.value \cup {"_id"}
  /\ doc["_id"] = entry.key
  /\ \A f \in DOMAIN entry.value : doc[f] = entry.value[f]

\* update_one was called with an _id that is a key of the store
UpdateOfExisting ==
  /\ call.op = "update_one"
  /\ "_id" \in DOMAIN call.query
  /\ call.query["_id"] \in KeysOf(Before)

\* The days of a record: those of schedule_details.days, none when absent.
DaysOf(doc) ==
  IF "schedule_details" \in DOMAIN doc /\ "days" \in DOMAIN doc["schedule_details"]
  THEN Range(doc["schedule_details"]["days"])
  ELSE {}

\* C1: find({}) and find() return one record per distinct key, in the order
\* of the store, each tagged with its key under _id and carrying the stored
\* fields; insert_one appends a new key at the end and replaces the fields of
\* an existing key in place (same position, same count, no second record,
\* nothing raised), so the order is that of first insertion; every other
\* record is left as it was.
C1_FindAllAndInsert ==
  /\ \A c \in Collections :
       \A i, j \in DOMAIN Store(c) : Store(c)[i].key = Store(c)[j].key => i = j
  /\ (call.op = "find" /\ (call.args = <<>> \/ call.args = <<EmptyDict>>)) =>
       /\ Len(result) = Len(After)
       /\ \A i \in DOMAIN After : Tagged(After[i], result[i])
       /\ activities_db = pre.activities /\ teachers_db = pre.teachers
  /\ call.op = "insert_one" =>
       LET k == call.document["_id"]
       IN  /\ result = TRUE
           /\ dict_keys(After) =
                IF k \in KeysOf(Before) THEN dict_keys(Before)
                ELSE Append(dict_keys(Before), k)
           /\ k \in KeysOf(Before) => Len(After) = Len(Before)
           /\ Cardinality({i \in DOMAIN After : After[i].key = k}) = 1
           /\ \A i \in DOMAIN After :
                IF After[i].key = k
                THEN /\ DOMAIN After[i].value = DOMAIN call.document \ {"_id"}
                     /\ \A f \in DOMAIN After[i].value :
                          After[i].value[f] = call.document[f]
                ELSE After[i] = Before[i]

C1_ReplacedInPlace ==
  /\ call.op = "insert_one"
  /\ Len(Before) >= 2
  /\ Before[1].key = call.document["_id"]
  /\ Before[1].value # After[1].value
  /\ After[1].key = call.document["_id"]

\* The store a collection holds right after it was seeded.
SeededStore(c) ==
  IF c = "activities"
  THEN initial_activities
  ELSE [i \in DOMAIN initial_teachers |->
          [key |-> initial_teachers[i].username, value |-> initial_teachers[i]]]

\* C2: init_database seeds a collection exactly when it held no record at the
\* call, each collection on its own count; a non-empty collection is left
\* unchanged; an init_database that follows an init_database changes nothing
\* and the counts stay the same.
C2_SeedOnlyWhenEmpty ==
  call.op = "init_database" =>
    /\ \A c \in Collections :
         IF Len(pre[c]) = 0
         THEN Store(c) = SeededStore(c)
         ELSE Store(c) = pre[c]
    /\ call.after = "init_database" =>
         /\ activities_db = pre.activities
         /\ teachers_db = pre.teachers
         /\ count_documents(activities_db, EmptyDict) = Len(pre.activities)
         /\ count_documents(teachers_db, EmptyDict) = Len(pre.teachers)

C2_SecondInitAfterPartialSeed ==
  /\ call.op = "init_database"
  /\ call.after = "init_database"
  /\ Len(activities_db) = Len(initial_activities)
  /\ Len(teachers_db) = 1

\* C3: update_one with only $push {field: v} on an existing key appends v as
\* the last element of the field, keeping the elements already there (also
\* when v is among them), and creates the field when the record lacks it, so
\* that the field is then exactly [v]; $pull {field: v} on a field that is
\* exactly [v] leaves the field present and empty; find_one by that _id then
\* returns the updated sequence.
C3_PushAppends ==
  UpdateOfExisting =>
    LET k   == call.query["_id"]
        old == dict_at(Before, k)
        new == dict_at(After, k)
        got == find_one(After, "_id" :> k)
    IN  /\ DOMAIN call.update = {"$push"} =>
             \A field \in DOMAIN call.update["$push"] :
               LET v == call.update["$push"][field]
               IN  /\ field \in DOMAIN new
                   /\ new[field] =
                        (IF field \in DOMAIN old THEN old[field] ELSE <<>>) \o <<v>>
                   /\ field \notin DOMAIN old => new[field] = <<v>>
                   /\ got.found /\ got.doc[field] = new[field]
        /\ DOMAIN call.update = {"$pull"} =>
             \A field \in DOMAIN call.update["$pull"] :
               (field \in DOMAIN old /\ old[field] = <<call.update["$pull"][field]>>) =>
                 /\ field \in DOMAIN new
                 /\ new[field] = <<>>
                 /\ got.found /\ got.doc[field] = <<>>

C3_PushOfPresentValue ==
  /\ UpdateOfExisting
  /\ DOMAIN call.update = {"$push"}
  /\ "participants" \in DOMAIN dict_at(Before, call.query["_id"])
  /\ dict_at(Before, call.query["_id"])["participants"] = <<"a@x.edu">>
  /\ call.update["$push"]["participants"] = "a@x.edu"
  /\ dict_at(After, call.query["_id"])["participants"] = <<"a@x.edu", "a@x.edu">>

\* C4: update_one with only $pull {field: v} on an existing key removes the
\* first occurrence of v from the field and nothing else; when the record has
\* no such field or v is not in it the store is unchanged and the field is not
\* created; in both cases modified_count is 1.
C4_PullRemovesFirst ==
  (UpdateOfExisting /\ DOMAIN call.update = {"$pull"}) =>
    LET k   == call.query["_id"]
        old == dict_at(Before, k)
        new == dict_at(After, k)
    IN  /\ result.modified_count = 1
        /\ \A field \in DOMAIN call.update["$pull"] :
             LET v == call.update["$pull"][field]
             IN  IF field \in DOMAIN old /\ v \in Range(old[field])
                 THEN \E i \in DOMAIN old[field] :
                        /\ old[field][i] = v
                        /\ \A j \in 1..(i - 1) : old[field][j] # v
                        /\ new[field] =
                             [n \in 1..(Len(old[field]) - 1) |->
                                IF n < i THEN old[field][n] ELSE old[field][n + 1]]
                 ELSE /\ After = Before
                      /\ DOMAIN new = DOMAIN old

C4_PullWithLaterOccurrence ==
  /\ UpdateOfExisting
  /\ DOMAIN call.update = {"$pull"}
  /\ call.update["$pull"]["participants"] = "a@x.edu"
  /\ "participants" \in DOMAIN dict_at(Before, call.query["_id"])
  /\ dict_at(Before, call.query["_id"])["participants"] = <<"a@x.edu", "b@x.edu", "a@x.edu">>
  /\ dict_at(After, call.query["_id"])["participants"] = <<"b@x.edu", "a@x.edu">>

\* C5: update_one reports modified_count 1 exactly when the query holds an
\* _id that is a key of the store, else 0; with 0 nothing changes and no
\* record is created; with 1 the keys, their order, the count and every
\* record but the one addressed are as before; the other collection is
\* never touched.
C5_UpdateFrame ==
  call.op = "update_one" =>
    LET hit == "_id" \in DOMAIN call.query /\ call.query["_id"] \in KeysOf(Before)
    IN  /\ result.modified_count = (IF hit THEN 1 ELSE 0)
        /\ \A c \in Collections : c # call.coll => Store(c) = pre[c]
        /\ ~hit => After = Before
        /\ hit =>
             /\ dict_keys(After) = dict_keys(Before)
             /\ count_documents(After, EmptyDict) = count_documents(Before, EmptyDict)
             /\ \A i \in DOMAIN Before :
                  Before[i].key # call.query["_id"] => After[i] = Before[i]

C5_UnknownId ==
  /\ call.op = "update_one"
  /\ "_id" \in DOMAIN call.query
  /\ call.query["_id"] \notin KeysOf(Before)
  /\ "$push" \in DOMAIN call.update
  /\ Len(Before) >= 1
  /\ result.modified_count = 0

\* C6: find with the single clause schedule_details.days $in L returns, in
\* store order, exactly the records whose days share an element with L;
\* find with difficulty_level $exists True returns exactly the records that
\* carry a non-null difficulty_level, and $exists False exactly the others.
C6_InAndExists ==
  (call.op = "find" /\ Len(call.args) = 1) =>
    LET q == call.args[1]
    IN  /\ (/\ DOMAIN q = {"schedule_details.days"}
            /\ q["schedule_details.days"].dict
            /\ DOMAIN q["schedule_details.days"].val = {"$in"}) =>
             result = SelectSeq(all_documents(After),
                        LAMBDA doc :
                          DaysOf(doc) \cap Range(q["schedule_details.days"].val["$in"]) # {})
        /\ (/\ DOMAIN q = {"difficulty_level"}
            /\ q["difficulty_level"].dict
            /\ DOMAIN q["difficulty_level"].val = {"$exists"}) =>
             result = SelectSeq(all_documents(After),
                        LAMBDA doc :
                          q["difficulty_level"].val["$exists"] =
                            (/\ "difficulty_level" \in DOMAIN doc
                             /\ doc["difficulty_level"] # None))

C6_NullLevelDoesNotExist ==
  /\ call.op = "find"
  /\ call.args = <<Exists(FALSE)>>
  /\ \E i \in DOMAIN result :
       "difficulty_level" \in DOMAIN result[i] /\ result[i]["difficulty_level"] = None
  /\ Len(result) < Len(After)

\* The field of a record that a recognised path addresses is there.
HasPath(doc, path) ==
  CASE path = "schedule_details.days" ->
         "schedule_details" \in DOMAIN doc /\ "days" \in DOMAIN doc["schedule_details"]
    [] path = "schedule_details.start_time" ->
         "schedule_details" \in DOMAIN doc /\ "start_time" \in DOMAIN doc["schedule_details"]
    [] path = "schedule_details.end_time" ->
         "schedule_details" \in DOMAIN doc /\ "end_time" \in DOMAIN doc["schedule_details"]
    [] path = "difficulty_level" -> "difficulty_level" \in DOMAIN doc

\* The clause constrains the value at its path: $in on days, $gte on
\* start_time, $lte on end_time, equality to a literal on difficulty_level.
ValueConstraining(path, condition) ==
  CASE path = "schedule_details.days"       -> has_op(condition, "$in")
    [] path = "schedule_details.start_time" -> has_op(condition, "$gte")
    [] path = "schedule_details.end_time"   -> has_op(condition, "$lte")
    [] path = "difficulty_level"            -> ~condition.dict
    [] OTHER                                -> FALSE

\* C7: a record that lacks the field a value-constraining clause addresses is
\* not in the result of find.
C7_AbsentFieldNeverMatches ==
  (call.op = "find" /\ Len(call.args) = 1) =>
    \A path \in DOMAIN call.args[1] :
      ValueConstraining(path, call.args[1][path]) =>
        \A i \in DOMAIN result : HasPath(result[i], path)

\* C8: find_one with an _id returns the record stored under that key, tagged
\* with _id, whatever else the query holds, and not-found when no record has
\* the key; without an _id it returns not-found; the store is unchanged.
C8_FindOneByIdOnly ==
  call.op = "find_one" =>
    /\ activities_db = pre.activities /\ teachers_db = pre.teachers
    /\ IF "_id" \in DOMAIN call.query /\ call.query["_id"] \in KeysOf(After)
       THEN /\ result.found
            /\ \E i \in DOMAIN After :
                 After[i].key = call.query["_id"] /\ Tagged(After[i], result.doc)
       ELSE result = NotFound

C8_NoIdNotFoundDespiteMatches ==
  /\ call.op = "find_one"
  /\ "_id" \notin DOMAIN call.query
  /\ call.query # EmptyDict
  /\ find(After, <<call.query>>) # <<>>
  /\ Len(find(After, <<call.query>>)) < Len(After)
  /\ result = NotFound

\* C9: aggregate with a first stage $unwind of $schedule_details.days returns
\* each day that occurs in some record's schedule_details.days exactly once,
\* in ascending order, wrapped as {_id: day}; any other pipeline returns the
\* empty sequence; the store is unchanged.
C9_AggregateDays ==
  call.op = "aggregate" =>
    /\ activities_db = pre.activities /\ teachers_db = pre.teachers
    /\ IF /\ Len(call.pipeline) >= 1
          /\ "$unwind" \in DOMAIN call.pipeline[1]
          /\ call.pipeline[1]["$unwind"] = "$schedule_details.days"
       THEN /\ \A i \in DOMAIN result : DOMAIN result[i] = {"_id"}
            /\ {result[i]["_id"] : i \in DOMAIN result} =
                 UNION {DaysOf(After[i].value) : i \in DOMAIN After}
            /\ \A i, j \in DOMAIN result :
                 i < j => str_lt(result[i]["_id"], result[j]["_id"])
       ELSE result = <<>>

C9_FridayMondayScenario ==
  /\ call.op = "aggregate"
  /\ Len(After) = 2
  /\ DaysOf(After[1].value) = {"Monday", "Friday"}
  /\ DaysOf(After[2].value) = {"Friday"}
  /\ result = <<[_id |-> "Friday"], [_id |-> "Monday"]>>

RecognisedPaths ==
  {"schedule_details.days", "schedule_details.start_time",
   "schedule_details.end_time", "difficulty_level"}

\* C10: find(q) returns what find returns for q restricted to the recognised
\* paths, and, in store order, exactly the records that find returns for each
\* recognised clause of q taken alone.
C10_ClosedVocabulary ==
  (call.op = "find" /\ Len(call.args) = 1) =>
    LET q          == call.args[1]
        recognised == DOMAIN q \cap RecognisedPaths
        restricted == [path \in recognised |-> q[path]]
    IN  /\ result = find(After, <<restricted>>)
        /\ result = SelectSeq(all_documents(After),
                      LAMBDA doc :
                        \A path \in recognised :
                          \E i \in DOMAIN find(After, <<path :> q[path]>>) :
                            find(After, <<path :> q[path]>>)[i] = doc)

C10_IdClauseIgnored ==
  /\ call.op = "find"
  /\ call.args = <<("_id" :> "Chess Club") @@ Exists(FALSE)>>
  /\ \E i \in DOMAIN result : result[i]["_id"] = "Yoga Club"
  /\ Len(result) < Len(After)

====
